---- MODULE Spec2Model ----
(***************************************************************************)
(* The Agent Quartermaster ("q"): the archive builder createAppArchive and *)
(* the command dispatcher main, in its two variants (src/q.go, which       *)
(* shells out to zip, and src/unnamed/part_000, which builds the archive   *)
(* in process and knows restart).                                          *)
(***************************************************************************)
EXTENDS Integers, Sequences, FiniteSets, TLC

VARIABLES
    variant,      \* which main runs: "exec" (src/q.go) or "zip" (part_000)
    fs,           \* the directory tree: content of every leaf, 0 = absent
    credFile,     \* $HOME/.agent.json: NoFile or the marshalled Connection
    lastConnect,  \* history: what the latest successful connect wrote
    args,         \* docopt's arguments of the running process
    pc,           \* position of the running process
    exit,         \* how the process ended: "none", "return", "panic", "fatal"
    c,            \* agent.Connection of the running process
    appName,      \* app.Name as filled in by GetApp (upload)
    trace,        \* remote calls, prints and file writes of the running process
    archive,      \* the zip file on disk: NoArchive or [name, entries, closed]
    bufOpen,      \* the handle os.Create returned is still open
    bufOk,        \* os.Create succeeded
    walkIdx,      \* filepath.Walk: index of the entry visited last
    result,       \* createAppArchive's return value: "none", "nil"
    ioErr         \* an open, stat or copy of a non-excluded entry failed

vars == <<variant, fs, credFile, lastConnect, args, pc, exit, c, appName,
          trace, archive, bufOpen, bufOk, walkIdx, result, ioErr>>

----------------------------------------------------------------------------
(* Bounds *)

\* most leaves a drawn tree holds
MaxFiles == 3
\* distinct file contents: 1..MaxContent
MaxContent == 2

----------------------------------------------------------------------------
(* Paths: a path is the sequence of its characters *)

\* a file that does not exist
NoFile == <<>>
\* no archive on disk
NoArchive == [name |-> <<>>, entries |-> <<>>, closed |-> FALSE]
\* no connect has succeeded yet
NoConnect == [service |-> "<nil>", credentials |-> <<>>]
Nil == "<nil>"

sApp == <<"a", "p", "p">>
sDSStore == <<".", "D", "S", "_", "S", "t", "o", "r", "e">>
sGit == <<".", "g", "i", "t">>
sBzr == <<".", "b", "z", "r">>
sHg == <<".", "h", "g">>
sHEAD == <<"H", "E", "A", "D">>
sREADME == <<"R", "E", "A", "D", "M", "E">>
sHgrc == <<"h", "g", "r", "c">>
sGo == <<"g", "o">>
sBin == <<"b", "i", "n">>
sPkg == <<"p", "k", "g">>
sSrc == <<"s", "r", "c">>
sTool == <<"t", "o", "o", "l">>
sLibA == <<"l", "i", "b", ".", "a">>
sMainGo == <<"m", "a", "i", "n", ".", "g", "o">>
sMango == <<"m", "a", "n", "g", "o">>
sPkgs == <<"p", "k", "g", "s">>
sSock == <<"s", "o", "c", "k">>

RECURSIVE Join(_)
\* filepath.Join as Walk applies it: the segments separated by "/"
Join(segs) ==
    IF Len(segs) = 1 THEN segs[1]
    ELSE Join(SubSeq(segs, 1, Len(segs) - 1)) \o <<"/">> \o segs[Len(segs)]

\* The entries a tree under "app" may hold, in the lexical pre-order in which
\* filepath.Walk visits them.  kind is what fi.Stat().Mode() reports.
Universe ==
    << [segs |-> <<sApp>>, kind |-> "dir"],
       [segs |-> <<sApp, sDSStore>>, kind |-> "file"],
       [segs |-> <<sApp, sGit>>, kind |-> "dir"],
       [segs |-> <<sApp, sGit, sHEAD>>, kind |-> "file"],
       [segs |-> <<sApp, sGo>>, kind |-> "dir"],
       [segs |-> <<sApp, sGo, sGit>>, kind |-> "dir"],
       [segs |-> <<sApp, sGo, sGit, sHEAD>>, kind |-> "file"],
       [segs |-> <<sApp, sGo, sBin>>, kind |-> "dir"],
       [segs |-> <<sApp, sGo, sBin, sTool>>, kind |-> "file"],
       [segs |-> <<sApp, sGo, sPkg>>, kind |-> "dir"],
       [segs |-> <<sApp, sGo, sPkg, sLibA>>, kind |-> "file"],
       [segs |-> <<sApp, sGo, sSrc>>, kind |-> "dir"],
       [segs |-> <<sApp, sGo, sSrc, sBzr>>, kind |-> "dir"],
       [segs |-> <<sApp, sGo, sSrc, sBzr, sREADME>>, kind |-> "file"],
       [segs |-> <<sApp, sGo, sSrc, sGit>>, kind |-> "dir"],
       [segs |-> <<sApp, sGo, sSrc, sGit, sHEAD>>, kind |-> "file"],
       [segs |-> <<sApp, sGo, sSrc, sHg>>, kind |-> "dir"],
       [segs |-> <<sApp, sGo, sSrc, sHg, sHgrc>>, kind |-> "file"],
       [segs |-> <<sApp, sMainGo>>, kind |-> "file"],
       [segs |-> <<sApp, sMango>>, kind |-> "dir"],
       [segs |-> <<sApp, sMango, sPkgs>>, kind |-> "file"],
       [segs |-> <<sApp, sSock>>, kind |-> "other"] >>

Entries == 1..Len(Universe)
Leaves == {i \in Entries : Universe[i].kind # "dir"}

\* the traversal path of every entry, as Walk hands it to the callback
Paths == [i \in Entries |-> Join(Universe[i].segs)]

PathOf(i) == Paths[i]

IsPrefix(s, t) == Len(s) <= Len(t) /\ SubSeq(t, 1, Len(s)) = s

\* the leaves at or below every entry
Below ==
    [i \in Entries |-> {l \in Leaves : IsPrefix(Universe[i].segs, Universe[l].segs)}]

\* entry i exists in tree f: the root, a present leaf, or a directory above one
Present(f, i) == i = 1 \/ \E l \in Below[i] : f[l] # 0

----------------------------------------------------------------------------
(* The exclusion pattern *)

\* mutant: the go/bin alternative left out
exclusionPattern_NoBin ==
    { <<".", "D", "S", "_", "S", "t", "o", "r", "e">>,
      <<"g", "o", "/", ".*", "/", ".", "g", "i", "t">>,
      <<"g", "o", "/", ".*", "/", ".", "b", "z", "r">>,
      <<"g", "o", "/", ".*", "/", ".", "h", "g">>,
      <<"g", "o", "/", "p", "k", "g">> }

\* mutant: .git excluded wherever it is, not only below go/
exclusionPattern_AnyGit ==
    { <<".", "D", "S", "_", "S", "t", "o", "r", "e">>,
      <<".", "g", "i", "t">>,
      <<"g", "o", "/", ".*", "/", ".", "b", "z", "r">>,
      <<"g", "o", "/", ".*", "/", ".", "h", "g">>,
      <<"g", "o", "/", "p", "k", "g">>,
      <<"g", "o", "/", "b", "i", "n">> }

\* The alternatives of exclusionPattern, one token per regexp atom: "." is
\* any character, ".*" any run of characters, anything else itself.
exclusionPattern ==
    { <<".", "D", "S", "_", "S", "t", "o", "r", "e">>,
      <<"g", "o", "/", ".*", "/", ".", "g", "i", "t">>,
      <<"g", "o", "/", ".*", "/", ".", "b", "z", "r">>,
      <<"g", "o", "/", ".*", "/", ".", "h", "g">>,
      <<"g", "o", "/", "p", "k", "g">>,
      <<"g", "o", "/", "b", "i", "n">> }

RECURSIVE MatchHere(_, _, _, _)
\* pattern pat from token i matches string s from position j on
MatchHere(pat, i, s, j) ==
    IF i > Len(pat) THEN TRUE
    ELSE IF pat[i] = ".*"
         THEN \E k \in j..(Len(s) + 1) : MatchHere(pat, i + 1, s, k)
         ELSE /\ j <= Len(s)
              /\ (pat[i] = "." /\ s[j] # "\n") \/ pat[i] = s[j]
              /\ MatchHere(pat, i + 1, s, j + 1)

\* regexp.MatchString: unanchored, the pattern may match anywhere in s
MatchString(s) ==
    \E pat \in exclusionPattern : \E j \in 1..(Len(s) + 1) : MatchHere(pat, 1, s, j)

\* the entries patternToExclude matches, computed once
Excluded == {i \in Entries : MatchString(PathOf(i))}

----------------------------------------------------------------------------
(* Trees *)

Contents == 1..MaxContent

\* trees over the leaves in L, at most n of them present
Trees(L, n) ==
    UNION { { [i \in Leaves |-> IF i \in S THEN g[i] ELSE 0] :
                g \in {h \in [S -> Contents] :
                          \A i \in S : Universe[i].kind = "other" => h[i] = 1} } :
            S \in {T \in SUBSET L : Cardinality(T) <= n} }

\* what the directory named by appid holds: only "app" exists
RootExists(appid) == appid = "app"

----------------------------------------------------------------------------
(* Events of a process *)

Ev(kind, op, appid, versionid, err) ==
    [kind |-> kind, op |-> op, appid |-> appid, versionid |-> versionid, err |-> err]

\* fmt.Sprintf("%v.zip", app.Name)
ZipFileName(name) == <<name, ".zip">>

----------------------------------------------------------------------------
(* createAppArchive *)

\* a short read: what io.Copy leaves in an entry when it fails
Truncated == 0

\* os.Create(zipFileName) and zip.NewWriter(buf); the error is not looked at
OsCreate ==
    /\ pc = "osCreate"
    /\ \E ok \in BOOLEAN :
          /\ bufOk' = ok
          /\ bufOpen' = ok
          /\ archive' = IF ok
                        THEN [name |-> ZipFileName(appName), entries |-> <<>>,
                              closed |-> FALSE]
                        ELSE archive
          /\ trace' = IF ok
                      THEN Append(trace, Ev("write", "os.Create", args.appid, Nil, FALSE))
                      ELSE trace
    /\ walkIdx' = 0
    /\ result' = "none"
    /\ ioErr' = FALSE
    /\ pc' = "walk"
    /\ UNCHANGED <<variant, fs, credFile, lastConnect, args, exit, c, appName>>

\* the entries Walk has still to visit
ToVisit == {i \in Entries : i > walkIdx /\ Present(fs, i)}

\* the outcomes of the callback's I/O on an entry of the given kind
Outcomes(kind) ==
    IF kind = "file" THEN {"ok", "open", "stat", "create", "copy"}
    ELSE {"ok", "open", "stat"}

\* mutant: the entry named by the file's base name (info.Name()), not its path
AddEntry_BaseName(entries, i, data) ==
    Append(entries, [name |-> Universe[i].segs[Len(Universe[i].segs)], data |-> data])

\* w.Create(path) and io.Copy(fo, fi): the entry a regular file adds
AddEntry(entries, i, data) == Append(entries, [name |-> PathOf(i), data |-> data])

\* One call of Walk's callback, on the next entry in walk order.
WalkFn ==
    /\ pc = "walk"
    /\ RootExists(args.appid)
    /\ ToVisit # {}
    /\ LET i == CHOOSE x \in ToVisit : \A y \in ToVisit : x <= y
           last == ToVisit = {i}
       IN /\ walkIdx' = i
          /\ IF i \in Excluded
             THEN \* skip excluded files; return err (nil)
                  /\ pc' = IF last THEN "close" ELSE "walk"
                  /\ UNCHANGED <<archive, ioErr, exit, bufOpen>>
             ELSE \E out \in Outcomes(Universe[i].kind) :
                    CASE out \in {"open", "stat"} ->
                           \* fi.Stat() reports the error: print it, return it;
                           \* Walk stops and its result is dropped
                           /\ ioErr' = TRUE
                           /\ pc' = "close"
                           /\ UNCHANGED <<archive, exit, bufOpen>>
                      [] out = "create" ->
                           \* log.Fatal(err)
                           /\ pc' = "exit"
                           /\ exit' = "fatal"
                           /\ bufOpen' = FALSE
                           /\ UNCHANGED <<archive, ioErr>>
                      [] out = "copy" ->
                           \* io.Copy's error lands in the case clause's own
                           \* err, which nothing reads
                           /\ archive' = IF bufOk
                                         THEN [archive EXCEPT !.entries =
                                                 AddEntry(@, i, Truncated)]
                                         ELSE archive
                           /\ ioErr' = TRUE
                           /\ pc' = IF last THEN "close" ELSE "walk"
                           /\ UNCHANGED <<exit, bufOpen>>
                      [] OTHER ->
                           /\ archive' = IF bufOk /\ Universe[i].kind = "file"
                                         THEN [archive EXCEPT !.entries =
                                                 AddEntry(@, i, fs[i])]
                                         ELSE archive
                           /\ pc' = IF last THEN "close" ELSE "walk"
                           /\ UNCHANGED <<ioErr, exit, bufOpen>>
    /\ UNCHANGED <<variant, fs, credFile, lastConnect, args, c, appName, trace,
                   bufOk, result>>

\* Walk on a root that does not exist: the callback gets the root with Lstat's
\* error, os.Open fails, fi.Stat() on the nil file reports it, Walk stops.
WalkMissingRoot ==
    /\ pc = "walk"
    /\ ~RootExists(args.appid)
    /\ ioErr' = TRUE
    /\ pc' = "close"
    /\ UNCHANGED <<variant, fs, credFile, lastConnect, args, exit, c, appName,
                   trace, archive, bufOpen, bufOk, walkIdx, result>>

\* w.Close(): writes the central directory; the file buf is never closed.
WriterClose ==
    /\ pc = "close"
    /\ \E ok \in BOOLEAN :
          IF ok /\ bufOk
          THEN /\ archive' = [archive EXCEPT !.closed = TRUE]
               /\ result' = "nil"
               /\ pc' = "built"
               /\ UNCHANGED <<exit, bufOpen>>
          ELSE \* log.Fatal(err)
               /\ pc' = "exit"
               /\ exit' = "fatal"
               /\ bufOpen' = FALSE
               /\ UNCHANGED <<archive, result>>
    /\ UNCHANGED <<variant, fs, credFile, lastConnect, args, c, appName, trace,
                   bufOk, walkIdx, ioErr>>

----------------------------------------------------------------------------
(* createAppArchive on its own: every tree of at most MaxFiles leaves *)

NoConnection == [Service |-> "", Credentials |-> <<>>]

InitArchive ==
    /\ variant = "zip"
    /\ fs \in Trees(Leaves, MaxFiles)
    /\ credFile = NoFile
    /\ lastConnect = NoConnect
    /\ args = [cmd |-> "build", appid |-> "app", versionid |-> Nil,
               service |-> Nil, user |-> Nil, password |-> Nil]
    /\ pc = "osCreate"
    /\ exit = "none"
    /\ c = NoConnection
    /\ appName = "app"
    /\ trace = <<>>
    /\ archive = NoArchive
    /\ bufOpen = FALSE
    /\ bufOk = FALSE
    /\ walkIdx = 0
    /\ result = "none"
    /\ ioErr = FALSE

NextArchive == OsCreate \/ WalkFn \/ WriterClose

SpecArchive == InitArchive /\ [][NextArchive]_vars

----------------------------------------------------------------------------
(* main: argument values *)

Commands ==
    {"connect", "list", "show", "create", "upload", "start", "stop", "restart",
     "delete"}
AppIds == {"app", "web"}
VersionIds == {"v1"}
Services == {"http://a", "http://b"}
\* -u and -p: both given, or neither (docopt leaves them nil)
Logins == {<<Nil, Nil>>, <<"alice", "secret">>}

\* the commands whose usage line has <appid> (create: <appname>)
TakesAppId == Commands \ {"connect", "list"}
\* the commands whose usage has a line with <versionid>
TakesVersionId == {"start", "stop", "restart", "delete"}

\* the usage text of each variant: src/q.go has no restart
Usage(v) == IF v = "exec" THEN Commands \ {"restart"} ELSE Commands

\* the argument maps docopt.Parse can return under usage v
Arguments(v) ==
    { a \in [cmd : Usage(v), appid : AppIds \cup {Nil}, versionid : VersionIds \cup {Nil},
             service : Services \cup {Nil}, user : {Nil, "alice"},
             password : {Nil, "secret"}] :
        /\ (a.appid # Nil) = (a.cmd \in TakesAppId)
        /\ a.versionid # Nil => a.cmd \in TakesVersionId
        /\ (a.service # Nil) = (a.cmd = "connect")
        /\ <<a.user, a.password>> \in Logins
        /\ a.user # Nil => a.cmd = "connect" }

----------------------------------------------------------------------------
(* main: the connection record *)

\* mutant: the user name formatted twice, the password dropped
ConnectionOf_UserTwice(a) ==
    [Service |-> a.service, Credentials |-> <<a.user, ":", a.user>>]

\* c.Service and c.Credentials as connect sets them;
\* Credentials is fmt.Sprintf("%v:%v", -u, -p), and %v prints nil as <nil>
ConnectionOf(a) ==
    [Service |-> a.service, Credentials |-> <<a.user, ":", a.password>>]

\* json.Marshal(c): the object's keys and values in order
Marshal(conn) == <<"Service", conn.Service, "Credentials", conn.Credentials>>

\* json.Unmarshal(bytes, &c)
Unmarshal(bytes) == [Service |-> bytes[2], Credentials |-> bytes[4]]

\* mutant: the return after the message forgotten, main goes on to the command
OnReadError_FallThrough == "dispatch"

\* where main goes once the credential file could not be read: it returns
\* (part_000) or panics (q.go); either way the process is over
OnReadError == "exit"

\* the process ends: by return, by panic (check) or by log.Fatal
Finish(how) ==
    /\ pc' = "exit"
    /\ exit' = how
    /\ bufOpen' = FALSE

\* a new process: docopt.Parse
Invoke ==
    /\ pc = "exit"
    /\ \E a \in Arguments(variant) : args' = a
    /\ pc' = "load"
    /\ exit' = "none"
    /\ c' = NoConnection
    /\ appName' = ""
    /\ trace' = <<>>
    /\ bufOpen' = FALSE
    /\ bufOk' = FALSE
    /\ walkIdx' = 0
    /\ result' = "none"
    /\ ioErr' = FALSE
    /\ UNCHANGED <<variant, fs, credFile, lastConnect, archive>>

\* connect: build c from the arguments and write it to the credential file
Connect ==
    /\ pc = "load"
    /\ args.cmd = "connect"
    /\ \E ok \in BOOLEAN :
          IF ok
          THEN /\ c' = ConnectionOf(args)
               /\ credFile' = Marshal(c')
               /\ lastConnect' = [service |-> args.service,
                                  credentials |-> <<args.user, ":", args.password>>]
               /\ trace' = Append(trace, Ev("write", "credentials", Nil, Nil, FALSE))
               /\ pc' = "dispatch"
               /\ UNCHANGED <<exit, bufOpen>>
          ELSE \* check(err) panics; the file is as it was
               /\ Finish("panic")
               /\ trace' = Append(trace, Ev("write", "credentials", Nil, Nil, TRUE))
               /\ UNCHANGED <<c, credFile, lastConnect>>
    /\ UNCHANGED <<variant, fs, args, appName, archive, bufOk, walkIdx, result, ioErr>>

\* every other command: read the credential file into c
LoadRecord ==
    /\ pc = "load"
    /\ args.cmd # "connect"
    /\ \E readable \in BOOLEAN :
          IF readable /\ credFile # NoFile
          THEN /\ c' = Unmarshal(credFile)
               /\ trace' = Append(trace, Ev("read", "credentials", Nil, Nil, FALSE))
               /\ pc' = "dispatch"
               /\ UNCHANGED <<exit, bufOpen>>
          ELSE \* part_000 prints "Unable to read agent information" and
               \* returns; q.go panics in check
               /\ trace' = Append(trace, Ev("read", "credentials", Nil, Nil, TRUE))
               /\ pc' = OnReadError
               /\ exit' = IF variant = "zip" THEN "return" ELSE "panic"
               /\ bufOpen' = FALSE
               /\ UNCHANGED c
    /\ UNCHANGED <<variant, fs, credFile, lastConnect, args, appName, archive,
                   bufOk, walkIdx, result, ioErr>>

----------------------------------------------------------------------------
(* main: the commands *)

\* what every command leaves alone besides its own trace, pc and exit
Frame == UNCHANGED <<variant, fs, credFile, lastConnect, args, c, appName,
                     archive, bufOk, walkIdx, result, ioErr>>

\* a remote call and the printing of its result
Call(op, appid, versionid, err) ==
    << Ev("call", op, appid, versionid, err), Ev("print", "result", Nil, Nil, FALSE) >>

\* connect matches no command block: main prints the arguments at its end
ConnectDone ==
    /\ pc = "dispatch"
    /\ args.cmd = "connect"
    /\ trace' = Append(trace, Ev("print", "arguments", Nil, Nil, FALSE))
    /\ Finish("return")
    /\ Frame

\* mutant: a failed call is made a second time
Query_Retry(cmd, op) ==
    /\ pc = "dispatch"
    /\ args.cmd = cmd
    /\ \E err \in BOOLEAN :
          trace' = IF err
                   THEN trace \o << Ev("call", op, args.appid, Nil, TRUE),
                                    Ev("call", op, args.appid, Nil, FALSE),
                                    Ev("print", "table", Nil, Nil, FALSE) >>
                   ELSE trace \o << Ev("call", op, args.appid, Nil, FALSE),
                                    Ev("print", "table", Nil, Nil, FALSE) >>
    /\ Finish("return")
    /\ Frame

\* list and show: one call, then the tables; only part_000 looks at the error
Query(cmd, op) ==
    /\ pc = "dispatch"
    /\ args.cmd = cmd
    /\ \E err \in BOOLEAN :
          trace' = Append(
                     Append(trace, Ev("call", op, args.appid, Nil, err)),
                     IF err /\ variant = "zip"
                     THEN Ev("print", "Error", Nil, Nil, FALSE)
                     ELSE Ev("print", "table", Nil, Nil, FALSE))
    /\ Finish("return")
    /\ Frame

List == Query("list", "GetApps")

Show == Query("show", "GetApp")

\* create: read <appname>/app.yaml, print it, CreateApp, print the result
Create ==
    /\ pc = "dispatch"
    /\ args.cmd = "create"
    /\ \E readable \in BOOLEAN :
          IF readable /\ RootExists(args.appid)
          THEN /\ \E err \in BOOLEAN :
                     trace' = Append(trace, Ev("print", "appinfo", Nil, Nil, FALSE))
                                \o Call("CreateApp", args.appid, Nil, err)
               /\ Finish("return")
          ELSE /\ trace' = trace
               /\ Finish("panic")
    /\ Frame

\* mutant: the version id not looked at, the whole application addressed
ScopedCall_AppOnly(verb, a, err) ==
    LET appOp == [start |-> "StartApp", stop |-> "StopApp", delete |-> "DeleteApp"]
    IN Call(appOp[verb], a.appid, Nil, err)

\* the collaborator's method for a verb, by whether <versionid> is a string
ScopedCall(verb, a, err) ==
    LET versionOp == [start |-> "StartAppVersion", stop |-> "StopAppVersion",
                      delete |-> "DeleteAppVersion"]
        appOp == [start |-> "StartApp", stop |-> "StopApp", delete |-> "DeleteApp"]
    IN IF a.versionid # Nil
       THEN Call(versionOp[verb], a.appid, a.versionid, err)
       ELSE Call(appOp[verb], a.appid, Nil, err)

\* start, stop and delete: one call, its result printed, return
Scoped(cmd) ==
    /\ pc = "dispatch"
    /\ args.cmd = cmd
    /\ \E err \in BOOLEAN : trace' = trace \o ScopedCall(cmd, args, err)
    /\ Finish("return")
    /\ Frame

Start == Scoped("start")

Stop == Scoped("stop")

Delete == Scoped("delete")

\* restart, first half: the stop call; its error is not looked at
RestartStop ==
    /\ pc = "dispatch"
    /\ args.cmd = "restart"
    /\ \E err \in BOOLEAN : trace' = trace \o ScopedCall("stop", args, err)
    /\ pc' = "restartStart"
    /\ UNCHANGED <<exit, bufOpen>>
    /\ Frame

\* restart, second half: the start call, then return
RestartStart ==
    /\ pc = "restartStart"
    /\ \E err \in BOOLEAN : trace' = trace \o ScopedCall("start", args, err)
    /\ Finish("return")
    /\ Frame

----------------------------------------------------------------------------
(* main: upload *)

\* the names the collaborator may hold for an application
AppNames == {"app"}

\* upload, first step: GetApp (error not looked at; app stays zero on error),
\* then os.Remove(zipfilename) in part_000
UploadGetApp ==
    /\ pc = "dispatch"
    /\ args.cmd = "upload"
    /\ \E err \in BOOLEAN : \E name \in AppNames :
          /\ appName' = IF err THEN "" ELSE name
          /\ LET call == Ev("call", "GetApp", args.appid, Nil, err)
                 gone == /\ variant = "zip"
                         /\ archive # NoArchive
                         /\ archive.name = ZipFileName(appName')
             IN /\ archive' = IF gone THEN NoArchive ELSE archive
                /\ trace' = IF gone
                            THEN trace \o <<call, Ev("write", "os.Remove", Nil, Nil, FALSE)>>
                            ELSE Append(trace, call)
    /\ pc' = IF variant = "zip" THEN "osCreate" ELSE "execZip"
    /\ UNCHANGED <<variant, fs, credFile, lastConnect, args, exit, c, bufOpen,
                   bufOk, walkIdx, result, ioErr>>

\* what zip -r leaves in the archive: every entry of the tree, directories too
ZipOutput(f) ==
    LET present == {i \in Entries : Present(f, i)}
        RECURSIVE Upto(_)
        Upto(n) == IF n = 0 THEN <<>>
                   ELSE IF n \in present
                        THEN Append(Upto(n - 1),
                                    [name |-> PathOf(n),
                                     data |-> IF n \in Leaves THEN f[n] ELSE 0])
                        ELSE Upto(n - 1)
    IN Upto(Len(Universe))

\* q.go: exec.Command("zip", "-r", zipfilename, app.Name); check(err)
ExecZip ==
    /\ pc = "execZip"
    /\ \E ok \in BOOLEAN :
          IF ok /\ RootExists(appName)
          THEN /\ archive' = [name |-> ZipFileName(appName), entries |-> ZipOutput(fs),
                              closed |-> TRUE]
               /\ trace' = Append(trace, Ev("write", "zip -r", Nil, Nil, FALSE))
               /\ pc' = "built"
               /\ UNCHANGED <<exit, bufOpen>>
          ELSE /\ Finish("panic")
               /\ UNCHANGED <<archive, trace>>
    /\ UNCHANGED <<variant, fs, credFile, lastConnect, args, c, appName, bufOk,
                   walkIdx, result, ioErr>>

\* upload, last step: ReadFile(zipfilename), check, CreateAppVersion, print
UploadSend ==
    /\ pc = "built"
    /\ args.cmd = "upload"
    /\ \E readable \in BOOLEAN :
          IF /\ readable
             /\ archive # NoArchive
             /\ archive.name = ZipFileName(appName)
          THEN /\ \E err \in BOOLEAN :
                     trace' = trace \o Call("CreateAppVersion", args.appid, Nil, err)
               /\ Finish("return")
          ELSE /\ trace' = trace
               /\ Finish("panic")
    /\ Frame

----------------------------------------------------------------------------
(* The program: any sequence of invocations of one variant *)

\* the leaves the application directory holds when main runs
AppLeaves == {i \in Leaves : Universe[i].segs = <<sApp, sMainGo>>}

Init ==
    /\ variant \in {"exec", "zip"}
    /\ fs \in Trees(AppLeaves, MaxFiles)
    /\ credFile = NoFile
    /\ lastConnect = NoConnect
    /\ args = [cmd |-> "list", appid |-> Nil, versionid |-> Nil,
               service |-> Nil, user |-> Nil, password |-> Nil]
    /\ pc = "exit"
    /\ exit = "none"
    /\ c = NoConnection
    /\ appName = ""
    /\ trace = <<>>
    /\ archive = NoArchive
    /\ bufOpen = FALSE
    /\ bufOk = FALSE
    /\ walkIdx = 0
    /\ result = "none"
    /\ ioErr = FALSE

Next ==
    \/ Invoke
    \/ Connect
    \/ LoadRecord
    \/ ConnectDone
    \/ List
    \/ Show
    \/ Create
    \/ Start
    \/ Stop
    \/ Delete
    \/ RestartStop
    \/ RestartStart
    \/ UploadGetApp
    \/ OsCreate
    \/ WalkFn
    \/ WalkMissingRoot
    \/ WriterClose
    \/ ExecZip
    \/ UploadSend

Spec == Init /\ [][Next]_vars

----------------------------------------------------------------------------
(* Properties: the archive builder (SpecArchive) *)

\* the entry of the universe with the given segments
Leaf(segs) == CHOOSE i \in Entries : Universe[i].segs = segs

RECURSIVE Split(_)
\* a path's segments: the runs of characters between "/"
Split(s) ==
    IF \A k \in 1..Len(s) : s[k] # "/" THEN <<s>>
    ELSE LET k == CHOOSE x \in 1..Len(s) :
                     s[x] = "/" /\ \A y \in 1..(x - 1) : s[y] # "/"
         IN <<SubSeq(s, 1, k - 1)>> \o Split(SubSeq(s, k + 1, Len(s)))

EndsWith(s, suf) ==
    Len(s) >= Len(suf) /\ SubSeq(s, Len(s) - Len(suf) + 1, Len(s)) = suf

\* the path lies below a directory d that is directly inside a directory go
UnderGoDir(segs, d) ==
    \E k \in 1..(Len(segs) - 2) : segs[k] = sGo /\ segs[k + 1] = d

\* the path lies below a .git, .bzr or .hg directory that is at least depth
\* levels below a directory go (1: directly inside go)
UnderVcsBelowGo(segs, depth) ==
    \E k \in 1..(Len(segs) - 1) : \E m \in 1..(Len(segs) - 1) :
        segs[k] = sGo /\ m >= k + depth /\ segs[m] \in {sGit, sBzr, sHg}

\* createAppArchive has returned nil and no I/O on the tree failed
BuiltCleanly == pc = "built" /\ result = "nil" /\ ~ioErr

\* the regular files of the tree whose path the pattern does not match
Wanted == {i \in Entries : Present(fs, i) /\ Universe[i].kind = "file"
                             /\ ~MatchString(Paths[i])}

\* C1: after a createAppArchive without I/O failure the archive holds exactly
\* the regular files under the root whose traversal path does not match the
\* exclusion pattern: each once, named by its traversal path, with the
\* source's content; no directory and no excluded file has an entry.
C1_ExactlyTheWantedFiles ==
    BuiltCleanly =>
        /\ \A i \in Wanted :
              /\ Cardinality({k \in DOMAIN archive.entries :
                                 archive.entries[k].name = Paths[i]}) = 1
              /\ \A k \in DOMAIN archive.entries :
                    archive.entries[k].name = Paths[i]
                        => archive.entries[k].data = fs[i]
        /\ \A k \in DOMAIN archive.entries :
              \E i \in Wanted : archive.entries[k].name = Paths[i]
        /\ archive.closed

\* a clean build of a tree that holds wanted files beside an excluded file,
\* a directory and a non-regular entry
C1_Witness ==
    /\ BuiltCleanly
    /\ Len(archive.entries) >= 2
    /\ \E i \in Excluded \cap Leaves : fs[i] # 0

\* C2 as stated: at every point no entry ends in .DS_Store or lies under
\* go/pkg, go/bin, or a .git, .bzr or .hg directory anywhere beneath a go
\* directory, one directly inside go (go/.git/HEAD) included.
C2_Original ==
    \A k \in DOMAIN archive.entries :
        LET name == archive.entries[k].name
        IN /\ ~EndsWith(name, sDSStore)
           /\ ~UnderGoDir(Split(name), sPkg)
           /\ ~UnderGoDir(Split(name), sBin)
           /\ ~UnderVcsBelowGo(Split(name), 1)

\* C2, amended: at every point no entry ends in .DS_Store or lies under
\* go/pkg, go/bin, or a .git, .bzr or .hg directory at least one directory
\* level below a go directory (go/<dir>/.../.git); a .git, .bzr or .hg
\* directly inside go is not kept out.
C2_NoExcludedEntry ==
    \A k \in DOMAIN archive.entries :
        LET name == archive.entries[k].name
        IN /\ ~EndsWith(name, sDSStore)
           /\ ~UnderGoDir(Split(name), sPkg)
           /\ ~UnderGoDir(Split(name), sBin)
           /\ ~UnderVcsBelowGo(Split(name), 2)

\* a finished build of a tree with a .DS_Store, a go/bin file and a .git
\* below go/src
C2_Witness ==
    /\ pc = "built"
    /\ fs[Leaf(<<sApp, sDSStore>>)] # 0
    /\ fs[Leaf(<<sApp, sGo, sBin, sTool>>)] # 0
    /\ fs[Leaf(<<sApp, sGo, sSrc, sGit, sHEAD>>)] # 0

\* the tree of the scenario: main.go, .git/HEAD and .DS_Store directly under
\* the root, nothing else
Scenario ==
    LET in == {Leaf(<<sApp, sMainGo>>), Leaf(<<sApp, sGit, sHEAD>>),
               Leaf(<<sApp, sDSStore>>)}
    IN \A i \in Leaves : (fs[i] # 0) = (i \in in)

EntryOf(i) == [name |-> Paths[i], data |-> fs[i]]

\* C3 as stated: the scenario's archive holds exactly one entry, the
\* ordinary file with its full content.
C3_Original ==
    (BuiltCleanly /\ Scenario)
        => archive.entries = <<EntryOf(Leaf(<<sApp, sMainGo>>))>>

\* C3, amended: the scenario's archive holds exactly two entries, the .git
\* file and the ordinary file, each with its full content; the .DS_Store
\* file is not in the archive.
C3_TwoEntries ==
    (BuiltCleanly /\ Scenario)
        => archive.entries = << EntryOf(Leaf(<<sApp, sGit, sHEAD>>)),
                                EntryOf(Leaf(<<sApp, sMainGo>>)) >>

\* the scenario's tree, built without I/O failure
C3_Witness == BuiltCleanly /\ Scenario

\* C8: whenever createAppArchive returns success, no handle on the output
\* file is left open.
C8_ClosedOnSuccess == (pc = "built" /\ result = "nil") => ~bufOpen

----------------------------------------------------------------------------
(* Properties: the commands (Spec) *)

Calls == {k \in DOMAIN trace : trace[k].kind = "call"}

\* C4: an I/O error on opening, stat-ing or copying a non-excluded file is
\* fatal: createAppArchive does not return nil after one, and upload does not
\* send the archive of such a build.
C4_IoErrorIsFatal ==
    ioErr =>
        /\ ~(pc = "built" /\ result = "nil")
        /\ \A k \in Calls : trace[k].op # "CreateAppVersion"

\* C5: once a remote call has returned an error the command does nothing
\* more than print the error: no further call, no archive build, no result.
C5_ErrorAborts ==
    \A k \in Calls :
        trace[k].err =>
            \A j \in DOMAIN trace :
                j > k => trace[j].kind = "print" /\ trace[j].op = "Error"

\* C6 as stated: no command issues more than one remote call in one run.
C6_Original == Cardinality(Calls) <= 1

\* the process ran its command to the final return
Completed == pc = "exit" /\ exit = "return" /\ c # NoConnection

\* C6, amended: connect issues no remote call; list, show, create, start,
\* stop and delete issue at most one; upload and restart issue at most two, and exactly two when
\* they run to their end (upload: GetApp, then CreateAppVersion; restart:
\* stop, then start).
C6_CallsPerCommand ==
    /\ Cardinality(Calls) <= (CASE args.cmd = "connect" -> 0
                                [] args.cmd \in {"upload", "restart"} -> 2
                                [] OTHER -> 1)
    /\ (Completed /\ args.cmd = "restart") => Cardinality(Calls) = 2
    /\ (Completed /\ args.cmd = "upload") => Cardinality(Calls) = 2

\* a restart that ran to its end and made its two calls
C6_Witness ==
    Completed /\ args.cmd = "restart" /\ Cardinality(Calls) = 2

C9_ScopeFollowsVersionId ==
    LET versionOps == [start |-> {"StartAppVersion"}, stop |-> {"StopAppVersion"},
                       restart |-> {"StopAppVersion", "StartAppVersion"},
                       delete |-> {"DeleteAppVersion"}]
        appOps == [start |-> {"StartApp"}, stop |-> {"StopApp"},
                   restart |-> {"StopApp", "StartApp"}, delete |-> {"DeleteApp"}]
    IN args.cmd \in TakesVersionId =>
          \A k \in Calls :
              /\ trace[k].appid = args.appid
              /\ trace[k].versionid = args.versionid
              /\ trace[k].op \in (IF args.versionid # Nil
                                  THEN versionOps[args.cmd]
                                  ELSE appOps[args.cmd])

\* a finished delete of one version
C9_Witness ==
    /\ Completed
    /\ args.cmd = "delete"
    /\ args.versionid # Nil
    /\ Calls # {}

\* the credential file could not be read in this run
CredReadFailed ==
    \E k \in DOMAIN trace : trace[k].kind = "read" /\ trace[k].err

\* C10: a command other than connect whose credential file is absent or
\* unreadable is over at once: no remote call, no file created or changed.
C10_NoRecordNoAction ==
    CredReadFailed =>
        /\ pc = "exit"
        /\ exit \in {"return", "panic"}
        /\ \A k \in DOMAIN trace : trace[k].kind \notin {"call", "write"}

\* an upload that found a credential file it could not read
C10_Witness ==
    /\ CredReadFailed
    /\ args.cmd = "upload"
    /\ credFile # NoFile

====
